---- MODULE Spec2Model ----
(***************************************************************************)
(* Streaming multipart upload of the slack client (file.go): Upload and    *)
(* doUpload.  One producer goroutine encodes the multipart body into an    *)
(* unbuffered io.Pipe, the calling goroutine hands the pipe's read end to  *)
(* the HTTP client as request body and afterwards receives the producer's  *)
(* outcome from a channel of capacity 1.                                   *)
(***************************************************************************)
EXTENDS Integers, Sequences, FiniteSets, TLC

\* ------------------------------------------------------------------ bounds
MaxChunks == 2          \* longest input stream, in chunks handed to io.Copy

\* --------------------------------------------------------------- constants
ErrChanCapUnbuffered == 1 - 1
ErrChanCap == 1         \* make(chan error, 1)

Nil == "nil"
ValidationErr == "You must specify the filename for the upload"
UrlErr == "NewRequestErr"
ReadErr == "StreamReadErr"
ErrClosedPipe == "io: read/write on closed pipe"
TransportErr == "TransportErr"
StatusErr == "StatusErr"
DecodeErr == "DecodeErr"

ChunkNames == <<"d1", "d2", "d3", "d4">>

\* The optional arguments of the Upload calls explored: title, filetype,
\* initialComment, channels.
UploadArgs == { <<"", "", "", <<>>>>,
                <<"report", "", "", <<"C1", "C2">>>>,
                <<"", "text", "hello", <<>>>> }
Tokens == {"", "tok"}
Filenames == {"", "a.txt"}

\* The response a server can give: status, whether the body is JSON that
\* decodes into the result, the envelope's ok flag and its error message.
NoResp == [status |-> 0, decodes |-> FALSE, ok |-> FALSE, error |-> ""]
Responses ==
    { [status |-> 200, decodes |-> TRUE,  ok |-> TRUE,  error |-> ""],
      [status |-> 200, decodes |-> TRUE,  ok |-> FALSE, error |-> "not_authed"],
      [status |-> 200, decodes |-> FALSE, ok |-> FALSE, error |-> ""],
      [status |-> 500, decodes |-> TRUE,  ok |-> TRUE,  error |-> ""],
      [status |-> 500, decodes |-> FALSE, ok |-> FALSE, error |-> ""] }

NoItem == [kind |-> "none", val |-> ""]
FileHdr(fn) == [kind |-> "filehdr", val |-> fn]
Data(c) == [kind |-> "data", val |-> c]
FieldHdr(k) == [kind |-> "fieldhdr", val |-> k]
FieldVal(v) == [kind |-> "fieldval", val |-> v]
EndBoundary == [kind |-> "end", val |-> ""]

VARIABLES
    token, urlValid,                          \* the client: s.token, s.url
    filename, args, params, streamLen, streamFails, \* the call's arguments
    callerPc, doErr, resp, cerr, retErr, retResult, respClosed, httpCalls,
    pipeCreated, rClosed, wClosed, wCloseErr, wr, pend,  \* the io.Pipe
    errChan,
    prodPc, prodErr, fieldsLeft, curField, streamPos, failed,
    tState, bodyRead,                         \* the HTTP transport in Do
    sends, wCloses, writesAfterFail, log      \* history

callVars == <<filename, args, params, streamLen, streamFails>>
clientVars == <<token, urlValid>>
callerVars == <<callerPc, doErr, resp, cerr, retErr, retResult, respClosed,
                httpCalls>>
pipeVars == <<pipeCreated, rClosed, wClosed, wCloseErr, wr, pend>>
prodVars == <<prodPc, prodErr, fieldsLeft, curField, streamPos, failed>>
transVars == <<tState, bodyRead>>
histVars == <<sends, wCloses, writesAfterFail, log>>
vars == <<clientVars, callVars, callerVars, pipeVars, errChan, prodVars,
          transVars, histVars>>

\* ------------------------------------------------------------ pure helpers
RECURSIVE Join(_, _)
\* strings.Join(elems, sep)
Join(elems, sep) ==
    IF Len(elems) = 0 THEN ""
    ELSE IF Len(elems) = 1 THEN elems[1]
    ELSE elems[1] \o sep \o Join(Tail(elems), sep)

\* appendNotEmpty(key, value, params)
appendNotEmpty(key, value, p) ==
    IF value = "" THEN p
    ELSE [k \in DOMAIN p \cup {key} |-> IF k = key THEN value ELSE p[k]]

\* url.Values.Set(key, value)
ParamsSet(key, value, p) ==
    [k \in DOMAIN p \cup {key} |-> IF k = key THEN value ELSE p[k]]

EmptyParams == [k \in {} |-> ""]

\* The url.Values Upload builds before it calls doUpload.
UploadParamsFirstChannelOnly(title, filetype, fn, initialComment, channels) ==
    LET p1 == appendNotEmpty("title", title, EmptyParams)
        p2 == appendNotEmpty("filetype", filetype, p1)
        p3 == appendNotEmpty("filename", fn, p2)
        p4 == appendNotEmpty("initial_comment", initialComment, p3)
    IN  IF Len(channels) > 0
        THEN ParamsSet("channels", channels[1], p4)
        ELSE p4

UploadParams(title, filetype, fn, initialComment, channels) ==
    LET p1 == appendNotEmpty("title", title, EmptyParams)
        p2 == appendNotEmpty("filetype", filetype, p1)
        p3 == appendNotEmpty("filename", fn, p2)
        p4 == appendNotEmpty("initial_comment", initialComment, p3)
    IN  IF Len(channels) > 0
        THEN ParamsSet("channels", Join(channels, ","), p4)
        ELSE p4

\* s.handleError(resp): an error unless the status is 2xx.
handleError(r) == IF r.status >= 200 /\ r.status <= 299 THEN Nil ELSE StatusErr

\* What doUpload returns once it has the producer's outcome c, the
\* submission's error err and its response r.  A decoded envelope that is
\* not ok is returned as the error (`return sm`), which carries its message.
doUploadResultIgnoresEnvelope(c, err, r) ==
    IF c # Nil THEN c
    ELSE IF err # Nil THEN err
    ELSE IF handleError(r) # Nil THEN handleError(r)
    ELSE IF ~r.decodes THEN DecodeErr
    ELSE Nil

doUploadResultIgnoresProducer(c, err, r) ==
    IF err # Nil THEN err
    ELSE IF handleError(r) # Nil THEN handleError(r)
    ELSE IF ~r.decodes THEN DecodeErr
    ELSE IF ~r.ok THEN r.error
    ELSE Nil

doUploadResult(c, err, r) ==
    IF c # Nil THEN c
    ELSE IF err # Nil THEN err
    ELSE IF handleError(r) # Nil THEN handleError(r)
    ELSE IF ~r.decodes THEN DecodeErr
    ELSE IF ~r.ok THEN r.error
    ELSE Nil

\* Where doUpload adds the token to params: in its first statement, before
\* the producer is started ("start"), not on the way to the request
\* ("newreq").
TokenAddedAfterStart == "newreq"
TokenAdded == "start"

\* Whether Upload returns the result r, given doUpload's error e: nil, err
\* when e is an error, else r, nil.
UploadResultAlways(e) == TRUE
UploadResult(e) == e = Nil

\* Upload's guard on the filename.
FilenameMissingNeverChecked(fn) == FALSE
FilenameMissing(fn) == fn = ""

\* --------------------------------------------------------------- producer
\* The producer's exit: the outcome is sent (errChan <- ...), then the
\* deferred bodyWriter.Close() runs, then the goroutine is gone.
EpilogueCloseFirst == <<"pipeClose", "send", "done">>
Epilogue == <<"send", "pipeClose", "done">>

EpilogueNext(p) ==
    LET i == CHOOSE j \in 1..Len(Epilogue) : Epilogue[j] = p
    IN  Epilogue[i + 1]

\* Where the producer goes when the step `step` fails: it sends the error
\* and returns.
OnFailReturnSilently(step) == IF step = "copyRead" THEN "pipeClose" ELSE Epilogue[1]
OnFailCarryOn(step) == IF step = "copyRead" THEN "fields" ELSE Epilogue[1]
OnFail(step) == Epilogue[1]

\* Where the producer goes after its send of outcome err.
AfterSendCloseOnSuccessOnly(err) == IF err # Nil THEN "done" ELSE EpilogueNext("send")
AfterSend(err) == EpilogueNext("send")

WriteSteps == {"createFile", "copyWrite", "fieldHdr", "fieldVal", "mwClose"}

\* What each writing step writes into the pipe, and the step after it.
WriteItem(step) ==
    CASE step = "createFile" -> FileHdr(filename)
      [] step = "copyWrite"  -> Data(ChunkNames[streamPos])
      [] step = "fieldHdr"   -> FieldHdr(curField)
      [] step = "fieldVal"   -> FieldVal(params[curField])
      [] step = "mwClose"    -> EndBoundary

WriteNext(step) ==
    CASE step = "createFile" -> "copyRead"
      [] step = "copyWrite"  -> "copyRead"
      [] step = "fieldHdr"   -> "fieldVal"
      [] step = "fieldVal"   -> "fields"
      [] step = "mwClose"    -> Epilogue[1]

\* ------------------------------------------------------------------- Init
\* A constructed client on which Upload has not been called yet.
Init ==
    /\ token \in Tokens
    /\ urlValid \in BOOLEAN
    /\ filename = "" /\ args = <<"", "", "", <<>>>> /\ params = EmptyParams
    /\ streamLen = 0 /\ streamFails = FALSE
    /\ callerPc = "init" /\ doErr = Nil /\ resp = NoResp /\ cerr = Nil
    /\ retErr = Nil /\ retResult = FALSE /\ respClosed = FALSE /\ httpCalls = 0
    /\ pipeCreated = FALSE /\ rClosed = FALSE /\ wClosed = FALSE /\ wCloseErr = Nil
    /\ wr = "idle" /\ pend = NoItem
    /\ errChan = <<>>
    /\ prodPc = "idle" /\ prodErr = Nil /\ fieldsLeft = {} /\ curField = ""
    /\ streamPos = 0 /\ failed = FALSE
    /\ tState = "idle" /\ bodyRead = <<>>
    /\ sends = 0 /\ wCloses = 0 /\ writesAfterFail = 0 /\ log = <<>>

\* ----------------------------------------------------------------- caller
\* Upload(title, filetype, filename, initialComment, channels, data) up to
\* and including doUpload's `go func()`: the filename check, the params,
\* the token, io.Pipe(), the error channel, the producer's start.  data is
\* a stream of n chunks that ends with a read error iff fails.
Upload ==
    /\ callerPc = "init"
    /\ \E fn \in Filenames, a \in UploadArgs, n \in 0..MaxChunks, fails \in BOOLEAN :
        /\ filename' = fn
        /\ args' = a
        /\ streamLen' = n
        /\ streamFails' = fails
        /\ IF FilenameMissing(fn)
           THEN /\ callerPc' = "returned"
                /\ retErr' = ValidationErr
                /\ retResult' = FALSE
                /\ UNCHANGED <<params, pipeCreated, prodPc, fieldsLeft>>
           ELSE LET u == UploadParams(a[1], a[2], fn, a[3], a[4])
                    p == IF TokenAdded = "start"
                         THEN appendNotEmpty("token", token, u)
                         ELSE u
                IN  /\ params' = p
                    /\ fieldsLeft' = DOMAIN p
                    /\ pipeCreated' = TRUE
                    /\ prodPc' = "createFile"
                    /\ callerPc' = "newreq"
                    /\ UNCHANGED <<retErr, retResult>>
    /\ UNCHANGED <<clientVars, doErr, resp, cerr, respClosed, httpCalls, rClosed, wClosed,
                   wCloseErr,
                   wr, pend, errChan, prodErr, curField, streamPos, failed,
                   transVars, histVars>>

\* http.NewRequest("POST", s.url+path, bodyReader): an unparsable URL makes
\* doUpload return at once; otherwise s.c.Do(postReq) is entered and the
\* transport starts to read the body.  RequestFailed is `err != nil` after
\* http.NewRequest.
RequestFailedInverted == urlValid
RequestFailed == ~urlValid

NewRequest ==
    /\ callerPc = "newreq"
    /\ IF ~RequestFailed
       THEN /\ callerPc' = "do"
            /\ httpCalls' = httpCalls + 1
            /\ tState' = "reading"
            /\ UNCHANGED <<retErr, retResult>>
       ELSE /\ callerPc' = "returned"
            /\ retErr' = UrlErr
            /\ retResult' = FALSE
            /\ UNCHANGED <<httpCalls, tState>>
    /\ params' = IF TokenAdded = "start"
                 THEN params
                 ELSE appendNotEmpty("token", token, params)
    /\ UNCHANGED <<clientVars, filename, args, streamLen, streamFails, doErr, resp,
                   cerr, respClosed, pipeVars, errChan, prodVars, bodyRead, histVars>>

\* When the caller executes `cerr := <-errChan`: after s.c.Do has returned.
RecvEnabled == callerPc = "recv"

\* `cerr := <-errChan` and the rest of doUpload and Upload: the producer's
\* outcome first, then the submission's error, the status, the decoding
\* and the envelope.  The response body is closed by the defer, which is
\* registered only when both cerr and err are nil.
Recv ==
    /\ RecvEnabled
    /\ Len(errChan) > 0
    /\ LET c == Head(errChan)
           e == doUploadResult(c, doErr, resp)
       IN  /\ errChan' = Tail(errChan)
           /\ cerr' = c
           /\ retErr' = e
           /\ retResult' = UploadResult(e)
           /\ respClosed' = (c = Nil /\ doErr = Nil)
           /\ callerPc' = "returned"
    /\ log' = Append(log, "recv")
    /\ UNCHANGED <<clientVars, callVars, doErr, resp, httpCalls, pipeVars, prodVars,
                   transVars, sends, wCloses, writesAfterFail>>

\* --------------------------------------------------------------- producer
\* The producer fails at step `step` with error e: it keeps e as its
\* outcome and leaves for its exit.
ProdFail(step, e) ==
    /\ prodErr' = e
    /\ failed' = TRUE
    /\ prodPc' = OnFail(step)

\* A Write on the PipeWriter begins (in CreateFormFile, io.Copy, WriteField
\* or writer.Close): on a pipe whose read end is closed it fails at once,
\* otherwise the data is offered to the reader and the producer blocks.
ProdWriteBegin ==
    /\ prodPc \in WriteSteps
    /\ wr = "idle"
    /\ writesAfterFail' = IF failed THEN writesAfterFail + 1 ELSE writesAfterFail
    /\ IF rClosed
       THEN /\ ProdFail(prodPc, ErrClosedPipe)
            /\ UNCHANGED <<wr, pend>>
       ELSE /\ wr' = "blocked"
            /\ pend' = WriteItem(prodPc)
            /\ UNCHANGED <<prodPc, prodErr, failed>>
    /\ UNCHANGED <<clientVars, callVars, callerVars, pipeCreated, rClosed, wClosed,
                   wCloseErr,
                   errChan, fieldsLeft, curField, streamPos, transVars, sends,
                   wCloses, log>>

\* When a blocked Write on the PipeWriter returns nil: once the reader has
\* taken the data, the pipe having no buffer.  (A buffered writer would
\* return as soon as the data is handed over.)
WriteReturnsBuffered == wr \in {"blocked", "acked"}
WriteReturns == wr = "acked"

\* The blocked Write returns: nil once the reader has taken the data,
\* io.ErrClosedPipe once the read end has been closed instead.
ProdWriteEnd ==
    /\ prodPc \in WriteSteps
    /\ \/ /\ WriteReturns
          /\ prodPc' = WriteNext(prodPc)
          /\ prodErr' = Nil
          /\ UNCHANGED failed
       \/ /\ wr = "blocked"
          /\ rClosed
          /\ ProdFail(prodPc, ErrClosedPipe)
    /\ wr' = "idle"
    /\ pend' = NoItem
    /\ UNCHANGED <<clientVars, callVars, callerVars, pipeCreated, rClosed, wClosed,
                   wCloseErr,
                   errChan, fieldsLeft, curField, streamPos, transVars, histVars>>

\* io.Copy(part, data) reads the next chunk of the input stream: a chunk,
\* the end of the stream, or the stream's read error.
ProdCopyRead ==
    /\ prodPc = "copyRead"
    /\ IF streamPos < streamLen
       THEN /\ streamPos' = streamPos + 1
            /\ prodPc' = "copyWrite"
            /\ UNCHANGED <<prodErr, failed>>
       ELSE IF streamFails
       THEN /\ ProdFail("copyRead", ReadErr)
            /\ UNCHANGED streamPos
       ELSE /\ prodPc' = "fields"
            /\ UNCHANGED <<prodErr, failed, streamPos>>
    /\ UNCHANGED <<clientVars, callVars, callerVars, pipeVars, errChan, fieldsLeft,
                   curField, transVars, histVars>>

\* `for k, v := range params`: the next key, in any order, or the loop's end.
ProdNextField ==
    /\ prodPc = "fields"
    /\ IF fieldsLeft = {}
       THEN /\ prodPc' = "mwClose"
            /\ UNCHANGED <<fieldsLeft, curField>>
       ELSE \E k \in fieldsLeft :
                /\ curField' = k
                /\ fieldsLeft' = fieldsLeft \ {k}
                /\ prodPc' = "fieldHdr"
    /\ UNCHANGED <<clientVars, callVars, callerVars, pipeVars, errChan, prodErr,
                   streamPos, failed, transVars, histVars>>

\* errChan <- err (or errChan <- writer.Close()): possible while the
\* channel has room.
ProdSend ==
    /\ prodPc = "send"
    /\ Len(errChan) < ErrChanCap
    /\ errChan' = Append(errChan, prodErr)
    /\ sends' = sends + 1
    /\ prodPc' = AfterSend(prodErr)
    /\ UNCHANGED <<clientVars, callVars, callerVars, pipeVars, prodErr, fieldsLeft,
                   curField, streamPos, failed, transVars, wCloses, writesAfterFail,
                   log>>

\* The error the write end is closed with, the producer's outcome being
\* err: none, bodyWriter.Close() being CloseWithError(nil).
CloseErrorIsOutcome(err) == err
CloseError(err) == Nil

\* defer bodyWriter.Close()
ProdPipeClose ==
    /\ prodPc = "pipeClose"
    /\ wClosed' = TRUE
    /\ wCloseErr' = CloseError(prodErr)
    /\ wCloses' = wCloses + 1
    /\ log' = Append(log, "wclose")
    /\ prodPc' = EpilogueNext("pipeClose")
    /\ UNCHANGED <<clientVars, callVars, callerVars, pipeCreated, rClosed, wr, pend,
                   errChan, prodErr, fieldsLeft, curField, streamPos, failed,
                   transVars, sends, writesAfterFail>>

\* ------------------------------------------------ the transport in s.c.Do
\* The transport reads the data the producer is writing.
TransportRead ==
    /\ tState = "reading"
    /\ ~rClosed
    /\ wr = "blocked"
    /\ bodyRead' = Append(bodyRead, pend)
    /\ wr' = "acked"
    /\ UNCHANGED <<clientVars, callVars, callerVars, pipeCreated, rClosed, wClosed,
                   wCloseErr,
                   pend, errChan, prodVars, tState, histVars>>

\* When a Read on the PipeReader returns io.EOF: the write end is closed.
\* (A reader over a plain buffer would report the end whenever it is empty.)
ReadSeesEOFWhenEmpty == wr = "idle"
ReadSeesEOF == wClosed

\* The transport's read of the closed pipe returns: io.EOF, the ordinary end
\* of the body, after a Close; the error of a CloseWithError, on which the
\* transport gives up the submission.
TransportEOF ==
    /\ tState = "reading"
    /\ ~rClosed
    /\ ReadSeesEOF
    /\ IF wCloseErr = Nil
       THEN tState' = "eof" /\ log' = Append(log, "eof")
       ELSE tState' = "stopped" /\ log' = Append(log, "stop")
    /\ UNCHANGED <<clientVars, callVars, callerVars, pipeVars, errChan, prodVars,
                   bodyRead, sends, wCloses, writesAfterFail>>

\* The transport stops reading the body before its end (the connection
\* failed, or the server answered early).
TransportStop ==
    /\ tState = "reading"
    /\ tState' = "stopped"
    /\ log' = Append(log, "stop")
    /\ UNCHANGED <<clientVars, callVars, callerVars, pipeVars, errChan, prodVars,
                   bodyRead, sends, wCloses, writesAfterFail>>

\* The transport closes the request body (the pipe's read end) once it is
\* through with it, before or after Do returns.
TransportCloseBody ==
    /\ tState \in {"eof", "stopped"}
    /\ ~rClosed
    /\ rClosed' = TRUE
    /\ UNCHANGED <<clientVars, callVars, callerVars, pipeCreated, wClosed, wCloseErr,
                   wr, pend,
                   errChan, prodVars, transVars, histVars>>

\* resp, err := s.c.Do(postReq) returns: a response or a transport error,
\* while the body is still being sent or after.
DoReturn ==
    /\ callerPc = "do"
    /\ \/ \E r \in Responses : resp' = r /\ doErr' = Nil
       \/ resp' = NoResp /\ doErr' = TransportErr
    /\ callerPc' = "recv"
    /\ log' = Append(log, "doret")
    /\ UNCHANGED <<clientVars, callVars, cerr, retErr, retResult, respClosed, httpCalls,
                   pipeVars, errChan, prodVars, transVars, sends, wCloses,
                   writesAfterFail>>

Next ==
    \/ Upload
    \/ NewRequest
    \/ Recv
    \/ ProdWriteBegin
    \/ ProdWriteEnd
    \/ ProdCopyRead
    \/ ProdNextField
    \/ ProdSend
    \/ ProdPipeClose
    \/ TransportRead
    \/ TransportEOF
    \/ TransportStop
    \/ TransportCloseBody
    \/ DoReturn

Spec == Init /\ [][Next]_vars

\* The Go scheduler runs every goroutine that can run; the transport reads
\* what is offered, notices the end of the body, closes the body when it is
\* through with it, and Do returns once the body is dealt with.  Nothing
\* forces a call of Upload or a failure of the connection.
FairSpec ==
    /\ Spec
    /\ WF_vars(NewRequest)
    /\ WF_vars(Recv)
    /\ WF_vars(ProdWriteBegin)
    /\ WF_vars(ProdWriteEnd)
    /\ WF_vars(ProdCopyRead)
    /\ WF_vars(ProdNextField)
    /\ WF_vars(ProdSend)
    /\ WF_vars(ProdPipeClose)
    /\ WF_vars(TransportRead)
    /\ WF_vars(TransportEOF)
    /\ WF_vars(TransportCloseBody)
    /\ WF_vars(DoReturn /\ tState # "reading")

\* ----------------------------------------------------------------- claims
\* Position of the first occurrence of event e in the log, 0 if none.
Pos(e) ==
    IF \E i \in 1..Len(log) : log[i] = e
    THEN CHOOSE i \in 1..Len(log) : log[i] = e /\ \A j \in 1..(i - 1) : log[j] # e
    ELSE 0

Logged(e) == Pos(e) > 0

\* C1: a started producer sends exactly one outcome to the error channel by
\* the time it terminates, never two; the channel never holds more than one
\* value, and whenever the producer is at its send the channel has room.  The
\* outcome sent is nil iff no step failed, else the failing step's error.
C1_ExactlyOneOutcome ==
    /\ sends <= 1
    /\ Len(errChan) <= 1
    /\ (prodPc = "done" => sends = 1)
    /\ (prodPc = "send" => Len(errChan) < ErrChanCap)
    /\ (errChan # <<>> => errChan[1] = prodErr)
    /\ (sends = 1 => (failed <=> prodErr # Nil))

C1_Witness == prodPc = "done" /\ sends = 1 /\ prodErr = ReadErr

\* C2: once the HTTP submission has returned, whatever it returned and
\* however much of the body the transport read, the caller's receive from
\* the error channel completes and doUpload returns.
C2_ReceiveCompletes == (callerPc = "recv") ~> (callerPc = "returned")

C2_Witness ==
    /\ callerPc = "returned"
    /\ Logged("recv")
    /\ tState = "stopped"
    /\ doErr = TransportErr

\* C3: a started producer always terminates, on every path of doUpload.
C3_ProducerTerminates == (prodPc # "idle") ~> (prodPc = "done")

\* C4 as claimed: when the submission has returned and the caller has not
\* yet received, the producer has terminated and its outcome is in the
\* channel.
C4_OutcomeReadyAtReturn ==
    callerPc = "recv" => (prodPc = "done" /\ Len(errChan) = 1)

\* C4 amended: when the submission has returned and the transport has read
\* the request body to its end, the producer has terminated and its outcome
\* is in the channel, so the caller's receive does not wait.
C4_OutcomeReadyAfterEOF ==
    (callerPc = "recv" /\ tState = "eof") => (prodPc = "done" /\ Len(errChan) = 1)

C4_Witness == callerPc = "recv" /\ tState = "eof" /\ prodErr = Nil

\* C5 as claimed: whenever the caller has read the error channel, the
\* producer closed the pipe write end before the transport's read of the
\* body ended (at end-of-body or by stopping), which ended before the
\* caller's read of the channel.
C5_CloseThenBodyThenRecv ==
    Logged("recv") =>
        LET body == IF Logged("eof") THEN Pos("eof") ELSE Pos("stop")
        IN  /\ Logged("wclose")
            /\ Pos("wclose") < body
            /\ body < Pos("recv")

\* C5 amended: whenever the submission returned after the transport had read
\* the body to its end and the caller has read the error channel, the
\* producer closed the pipe write end before the end-of-body, which came
\* before the caller's read of the channel.
C5_OrderAfterEOF ==
    (Logged("eof") /\ Pos("eof") < Pos("doret") /\ Logged("recv")) =>
        /\ Logged("wclose")
        /\ Pos("wclose") < Pos("eof")
        /\ Pos("eof") < Pos("recv")

C5_Witness ==
    /\ Logged("eof") /\ Pos("eof") < Pos("doret") /\ Logged("recv")
    /\ callerPc = "returned"

\* C6: when the producer's outcome is a failure, doUpload returns exactly
\* that failure and Upload no result, whatever the submission returned.
C6_ProducerFailureWins ==
    (callerPc = "returned" /\ Logged("recv") /\ cerr # Nil) =>
        (retErr = cerr /\ ~retResult)

C6_Witness ==
    /\ callerPc = "returned" /\ Logged("recv")
    /\ cerr = ReadErr /\ streamPos > 0
    /\ doErr = Nil /\ resp.status = 200 /\ resp.ok
    /\ retErr = ReadErr

\* C7: when the submission failed at network level and the input stream
\* raised no read error, the caller gets the submission's transport error.
C7_TransportErrorReturned ==
    (callerPc = "returned" /\ Logged("recv") /\ doErr # Nil /\ prodErr # ReadErr) =>
        retErr = doErr

\* C8: the pipe write end is closed at most once, only by the producer as
\* its last action, and a producer that has terminated has closed it once,
\* whether a step failed or none did.
C8_ClosedExactlyOnce ==
    /\ wCloses <= 1
    /\ (wClosed <=> wCloses = 1)
    /\ (prodPc = "done" => wCloses = 1)
    /\ (wCloses = 1 => prodPc = "done")

C8_Witness == prodPc = "done" /\ wCloses = 1 /\ failed /\ prodErr = ErrClosedPipe

\* C9: after the producer's first failing step nothing more is written into
\* the pipe: no write begins and none is pending, and the producer is in
\* its exit.
C9_NoWriteAfterFailure ==
    /\ writesAfterFail = 0
    /\ failed => /\ wr = "idle"
                 /\ pend = NoItem
                 /\ prodPc \in {"send", "pipeClose", "done"}

C9_Witness ==
    /\ failed /\ prodErr = ReadErr /\ prodPc = "done"
    /\ fieldsLeft # {} /\ tState = "eof"

\* C10: Upload with an empty filename returns the validation error and no
\* result, and does nothing else: no pipe, no producer, no read of the
\* input stream, no HTTP submission.
C10_EmptyFilenameNoEffect ==
    (callerPc # "init" /\ filename = "") =>
        /\ callerPc = "returned"
        /\ retErr = ValidationErr
        /\ ~retResult
        /\ ~pipeCreated
        /\ prodPc = "idle"
        /\ streamPos = 0
        /\ httpCalls = 0
        /\ tState = "idle"
        /\ bodyRead = <<>>

C10_Witness ==
    /\ callerPc = "returned" /\ filename = "" /\ streamLen > 0
    /\ retErr = ValidationErr

\* The fields a call supplies, as <<name, value>> pairs: the token and the
\* four scalar arguments when not empty, the channels when the list is not
\* empty, its elements separated by commas.
CommaJoined(list) ==
    LET add[i \in 0..Len(list)] ==
            IF i = 0 THEN ""
            ELSE IF i = 1 THEN list[1]
            ELSE add[i - 1] \o "," \o list[i]
    IN  add[Len(list)]

SuppliedFields ==
    {f \in { <<"token", token>>, <<"title", args[1]>>, <<"filetype", args[2]>>,
             <<"filename", filename>>, <<"initial_comment", args[3]>> } : f[2] # ""}
    \cup (IF args[4] # <<>> THEN {<<"channels", CommaJoined(args[4])>>} ELSE {})

\* C11: when no producer step failed and the transport has read the body to
\* its end, what it read is: the file part's header with the filename, the
\* chunks of the whole input stream in order, then for each supplied field
\* one part (header, value), every supplied field once and no other, in any
\* order, then the terminal boundary.
C11_BodyIsTheForm ==
    (tState = "eof" /\ ~failed) =>
        LET n == Cardinality(SuppliedFields)
            base == 1 + streamLen
        IN  /\ Len(bodyRead) = base + 2 * n + 1
            /\ bodyRead[1] = FileHdr(filename)
            /\ \A i \in 1..streamLen : bodyRead[1 + i] = Data(ChunkNames[i])
            /\ \A i \in 1..n :
                 /\ bodyRead[base + 2 * i - 1].kind = "fieldhdr"
                 /\ bodyRead[base + 2 * i].kind = "fieldval"
                 /\ <<bodyRead[base + 2 * i - 1].val, bodyRead[base + 2 * i].val>>
                        \in SuppliedFields
                 /\ \A j \in 1..n :
                        j # i => bodyRead[base + 2 * j - 1].val
                                    # bodyRead[base + 2 * i - 1].val
            /\ bodyRead[base + 2 * n + 1] = EndBoundary

C11_Witness ==
    /\ tState = "eof" /\ ~failed
    /\ streamLen = MaxChunks
    /\ token # ""
    /\ <<"channels", "C1,C2">> \in SuppliedFields
    /\ Len(bodyRead) = 1 + MaxChunks + 2 * 4 + 1

\* The number of data chunks among the items its argument holds.
RECURSIVE DataCount(_)
DataCount(items) ==
    IF items = <<>> THEN 0
    ELSE (IF Head(items).kind = "data" THEN 1 ELSE 0) + DataCount(Tail(items))

\* C12: the pipe buffers nothing.  What the producer has written and the
\* transport has not read is at most the one write in progress, so at most
\* one chunk taken from the input stream is not yet read by the transport;
\* while a write is pending the producer is inside that write, not reading
\* the stream; and a write returns only once the transport has read its
\* data or the read end has been closed.
C12_Backpressure ==
    /\ [](/\ (wr = "idle" <=> pend = NoItem)
          /\ (wr # "idle" => prodPc \in WriteSteps)
          /\ (wr = "acked" => bodyRead # <<>> /\ bodyRead[Len(bodyRead)] = pend)
          /\ streamPos - DataCount(bodyRead) <= 1
          /\ (streamPos - DataCount(bodyRead) = 1 =>
                 \/ prodPc = "copyWrite"
                 \/ (failed /\ prodErr = ErrClosedPipe)))
    /\ [][(wr # "idle" /\ wr' = "idle") =>
             \/ (wr = "acked" /\ bodyRead[Len(bodyRead)] = pend)
             \/ rClosed]_vars
    /\ [][streamPos' # streamPos => wr = "idle" /\ wr' = "idle"]_vars

C12_Witness ==
    /\ wr = "blocked" /\ prodPc = "copyWrite"
    /\ streamPos = 2 /\ DataCount(bodyRead) = 1
    /\ streamLen = MaxChunks

\* C13: from the producer's start on, no step writes the form parameters
\* (the token included), the filename or the other arguments; a step of the
\* producer leaves the caller's state alone and a step of the caller the
\* producer's.  What both sides change is the pipe and the error channel.
C13_NoSharedWrites ==
    /\ [][prodPc # "idle" => UNCHANGED <<params, filename, args, token>>]_vars
    /\ [][(prodPc # "idle" /\ prodVars' # prodVars) => UNCHANGED callerVars]_vars
    /\ [][(prodPc # "idle" /\ callerVars' # callerVars) => UNCHANGED prodVars]_vars

C13_Witness ==
    /\ callerPc = "recv" /\ prodPc = "fieldVal" /\ wr = "blocked"
    /\ "token" \in DOMAIN params
    /\ curField = "token"

\* C14 as claimed: every Upload call with a non-empty filename that has
\* returned made exactly one HTTP submission.
C14_ExactlyOneSubmission ==
    (callerPc = "returned" /\ filename # "") => httpCalls = 1

\* C14 amended: an Upload call makes at most one HTTP submission; one with a
\* non-empty filename whose HTTP request could be constructed has made
\* exactly one when it returns, whatever the outcome; one whose request
\* could not be constructed returns that error and has made none.
C14_OneSubmissionPerRequest ==
    /\ httpCalls <= 1
    /\ (callerPc \in {"do", "recv"} => httpCalls = 1)
    /\ (callerPc = "returned" /\ filename # "" /\ urlValid) =>
           (httpCalls = 1 /\ Logged("doret"))
    /\ (callerPc = "returned" /\ filename # "" /\ ~urlValid) =>
           (httpCalls = 0 /\ retErr = UrlErr)

C14_Witness ==
    /\ callerPc = "returned" /\ filename # "" /\ urlValid
    /\ httpCalls = 1
    /\ retErr = DecodeErr

\* C15: when the producer reported no failure, the submission returned a
\* response that passed the status check and its body decoded, Upload
\* returns the envelope's error message and no result if the envelope is not
\* ok, the status being 200 or not, and the result and no error if it is ok.
C15_EnvelopeDecides ==
    (/\ callerPc = "returned" /\ Logged("recv")
     /\ cerr = Nil /\ doErr = Nil
     /\ handleError(resp) = Nil /\ resp.decodes) =>
        IF resp.ok
        THEN retErr = Nil /\ retResult
        ELSE retErr = resp.error /\ retErr # Nil /\ ~retResult

C15_Witness ==
    /\ callerPc = "returned" /\ Logged("recv")
    /\ cerr = Nil /\ doErr = Nil
    /\ resp.status = 200 /\ resp.decodes /\ ~resp.ok
    /\ retErr = "not_authed" /\ ~retResult

\* C16: whenever Upload has returned, it returned a result and a nil error,
\* or no result and an error.
C16_ResultXorError ==
    callerPc = "returned" => (retResult <=> retErr = Nil)

C16_Witness ==
    /\ callerPc = "returned" /\ retResult /\ retErr = Nil
    /\ resp.ok /\ streamLen = MaxChunks

\* C17: a stream read error in the producer does not abort the submission.
\* The producer closes the write end without an error, so a transport that
\* is still reading next sees the ordinary end of the body, and what it has
\* read by then is the file header and the chunks before the error, with no
\* field and no terminal boundary; the read end is closed only by the
\* transport, once it is through with the body; the caller gets the read
\* error only after the submission returned, and a submission in flight
\* when the stream fails does return, with the read error for the caller.
C17_FailureDoesNotAbortSend ==
    /\ []((prodErr = ReadErr /\ wClosed) => wCloseErr = Nil)
    /\ []((prodErr = ReadErr /\ tState = "eof") =>
             /\ Len(bodyRead) = 1 + streamLen
             /\ bodyRead[1] = FileHdr(filename)
             /\ \A i \in 1..streamLen : bodyRead[1 + i] = Data(ChunkNames[i]))
    /\ []((prodErr = ReadErr /\ rClosed) => tState \in {"eof", "stopped"})
    /\ []((callerPc = "returned" /\ retErr = ReadErr) =>
             (Logged("doret") /\ Pos("doret") < Pos("recv")))
    /\ (prodErr = ReadErr /\ callerPc = "do") ~>
           (callerPc = "returned" /\ retErr = ReadErr)

C17_Witness ==
    /\ callerPc = "returned" /\ retErr = ReadErr
    /\ tState = "eof" /\ streamLen = MaxChunks
    /\ Pos("wclose") < Pos("eof") /\ Pos("eof") < Pos("doret")
    /\ doErr = Nil /\ resp.ok

\* The whole multipart body of the call has been read by the transport: the
\* file header, every chunk of the stream, a header and a value for every
\* key of params, and last the terminal boundary.
WholeBodyRead ==
    /\ Len(bodyRead) = 1 + streamLen + 2 * Cardinality(DOMAIN params) + 1
    /\ DataCount(bodyRead) = streamLen
    /\ bodyRead[Len(bodyRead)] = EndBoundary

\* C18: whenever Upload has returned success, the producer's outcome was
\* nil, the input stream was read to its end without an error, and the
\* transport had read the whole body, terminal boundary included; the same
\* holds whenever the producer is past its last write with no step failed,
\* so before it closes the pipe.
C18_SuccessMeansWholeBody ==
    /\ (callerPc = "returned" /\ filename # "" /\ retErr = Nil) =>
           /\ Logged("recv") /\ cerr = Nil
           /\ ~failed /\ prodErr = Nil
           /\ ~streamFails /\ streamPos = streamLen
           /\ WholeBodyRead
    /\ (prodPc \in {"send", "pipeClose", "done"} /\ ~failed) => WholeBodyRead

C18_Witness ==
    /\ callerPc = "returned" /\ filename # "" /\ retErr = Nil
    /\ streamLen = MaxChunks /\ ~wClosed
    /\ Cardinality(DOMAIN params) = 4

\* C19: whenever doUpload has returned after the HTTP submission gave it a
\* response, the response's body has been closed.
C19_ResponseBodyClosed ==
    (callerPc = "returned" /\ Logged("recv") /\ doErr = Nil /\ resp # NoResp) =>
        respClosed

====
